---------------------------- MODULE Spec2Model ----------------------------
(***************************************************************************)
(* Book library service: entity validation, use-case layer, PostgreSQL     *)
(* persistence gateway (backend/internal/domain/entities, usecases,        *)
(* repositories, infrastructure/database/init.sql), and the HTTP handlers  *)
(* and middleware in front of them (delivery/http/handlers, middleware,    *)
(* routes).                                                                *)
(*                                                                         *)
(* Strings are sequences of one-character strings, so that                 *)
(* strings.TrimSpace is computed and not assumed.  Timestamps are ticks of *)
(* the store's clock (CURRENT_TIMESTAMP); ids are the values the store     *)
(* generates (uuid_generate_v4), numbered in order of generation.          *)
(***************************************************************************)
EXTENDS Integers, Sequences, FiniteSets, TLC

VARIABLES store, now, nextId, last, vdto, vcreate, vupdate,
          resp, tokens, rateOn, apiKeyOn, conc, client

vars == <<store, now, nextId, last, vdto, vcreate, vupdate, resp, tokens, rateOn,
          apiKeyOn, conc, client>>

\* the request pipeline: the last HTTP response, the tokens of the rate
\* limiter's bucket, SecurityConfig.EnableRateLimit and EnableAPIKey
http == <<resp, tokens, rateOn, apiKeyOn>>

\* the requests in flight at the use-case layer and the browser client
side == <<conc, client>>

\* the request drawn by the validation specification and its two verdicts
val == <<vdto, vcreate, vupdate>>

(***************************************************************************)
(* Bounds of the model.                                                    *)
(***************************************************************************)
\* longest title / author drawn in the validation specification
MaxLen == 2
\* number of rows the store may generate an id for, beyond the sample rows
MaxBooks == 1
\* last tick of the store's clock
MaxClock == 1
\* number of calls the browser client issues after its initial load
MaxCalls == 2

(***************************************************************************)
(* entities/errors.go                                                      *)
(***************************************************************************)
Nil == "nil"
ErrBookNotFound == "ErrBookNotFound"
ErrInvalidTitle == "ErrInvalidTitle"
ErrInvalidAuthor == "ErrInvalidAuthor"
ErrInvalidYear == "ErrInvalidYear"
ErrDatabaseError == "ErrDatabaseError"
ErrInvalidUUID == "ErrInvalidUUID"

ValidationErrors == {ErrInvalidTitle, ErrInvalidAuthor, ErrInvalidYear}

(***************************************************************************)
(* strings.TrimSpace: removes leading and trailing white space as defined  *)
(* by Unicode (unicode.IsSpace).                                           *)
(***************************************************************************)
WhiteSpace == {" ", "\t", "\n", "\r", "\f", "U+000B", "U+0085", "U+00A0"}

RECURSIVE TrimLeft(_)
TrimLeft(s) ==
    IF s = <<>> THEN <<>>
    ELSE IF Head(s) \in WhiteSpace THEN TrimLeft(Tail(s))
    ELSE s

RECURSIVE TrimRight(_)
TrimRight(s) ==
    IF s = <<>> THEN <<>>
    ELSE IF s[Len(s)] \in WhiteSpace THEN TrimRight(SubSeq(s, 1, Len(s) - 1))
    ELSE s

TrimSpace(s) == TrimRight(TrimLeft(s))

\* the claims' "empty or whitespace-only", stated without TrimSpace
Blank(s) == \A i \in 1..Len(s) : s[i] \in WhiteSpace

(***************************************************************************)
(* entities/book.go: the year range of Validate                            *)
(***************************************************************************)
MinYear == 1000
MaxYear == 2034

DTO(t, a, y) == [Title |-> t, Author |-> a, Year |-> y]

\* mutant: the title check forgets to trim
CreateBookDTO_Validate_NoTrim(dto) ==
    IF dto.Title = <<>> THEN ErrInvalidTitle
    ELSE IF TrimSpace(dto.Author) = <<>> THEN ErrInvalidAuthor
    ELSE IF dto.Year < MinYear \/ dto.Year > MaxYear THEN ErrInvalidYear
    ELSE Nil

\* mutant: the year is checked before the title and the author
CreateBookDTO_Validate_YearFirst(dto) ==
    IF dto.Year < MinYear \/ dto.Year > MaxYear THEN ErrInvalidYear
    ELSE IF TrimSpace(dto.Title) = <<>> THEN ErrInvalidTitle
    ELSE IF TrimSpace(dto.Author) = <<>> THEN ErrInvalidAuthor
    ELSE Nil

\* func (dto *CreateBookDTO) Validate() error
CreateBookDTO_Validate(dto) ==
    IF TrimSpace(dto.Title) = <<>> THEN ErrInvalidTitle
    ELSE IF TrimSpace(dto.Author) = <<>> THEN ErrInvalidAuthor
    ELSE IF dto.Year < MinYear \/ dto.Year > MaxYear THEN ErrInvalidYear
    ELSE Nil

\* mutant: the year has no upper bound
UpdateBookDTO_Validate_NoUpperBound(dto) ==
    IF TrimSpace(dto.Title) = <<>> THEN ErrInvalidTitle
    ELSE IF TrimSpace(dto.Author) = <<>> THEN ErrInvalidAuthor
    ELSE IF dto.Year < MinYear THEN ErrInvalidYear
    ELSE Nil

\* mutant: the upper bound of the year is exclusive
UpdateBookDTO_Validate_Exclusive(dto) ==
    IF TrimSpace(dto.Title) = <<>> THEN ErrInvalidTitle
    ELSE IF TrimSpace(dto.Author) = <<>> THEN ErrInvalidAuthor
    ELSE IF dto.Year < MinYear \/ dto.Year >= MaxYear THEN ErrInvalidYear
    ELSE Nil

\* func (dto *UpdateBookDTO) Validate() error
UpdateBookDTO_Validate(dto) ==
    IF TrimSpace(dto.Title) = <<>> THEN ErrInvalidTitle
    ELSE IF TrimSpace(dto.Author) = <<>> THEN ErrInvalidAuthor
    ELSE IF dto.Year < MinYear \/ dto.Year > MaxYear THEN ErrInvalidYear
    ELSE Nil


(***************************************************************************)
(* entities.Book and its Go zero value (uuid.Nil, "", 0, time.Time{}).     *)
(***************************************************************************)
NilUUID == 0
ZeroTime == -1

Book(id, t, a, y, c, u) ==
    [ID |-> id, Title |-> t, Author |-> a, Year |-> y, CreatedAt |-> c, UpdatedAt |-> u]

ZeroBook == Book(NilUUID, <<>>, <<>>, 0, ZeroTime, ZeroTime)

\* mutant: the entity keeps the input as given
ToBook_NoTrim(dto, u) ==
    Book(u, dto.Title, dto.Author, dto.Year, ZeroTime, ZeroTime)

\* func (dto *CreateBookDTO) ToBook() *Book; u is the value of uuid.New()
ToBook(dto, u) ==
    Book(u, TrimSpace(dto.Title), TrimSpace(dto.Author), dto.Year, ZeroTime, ZeroTime)

(***************************************************************************)
(* init.sql: the sample rows inserted by one statement at tick 0.  The     *)
(* store is a function from the ids of the live rows to the rows.          *)
(***************************************************************************)
NumSample == 3

SampleTitle1 == <<"T", "h", "e", " ", "G", "o", " ", "P", "r", "o", "g", "r", "a", "m", "m", "i", "n", "g", " ", "L", "a", "n", "g", "u", "a", "g", "e">>
SampleAuthor1 == <<"A", "l", "a", "n", " ", "D", "o", "n", "o", "v", "a", "n">>
SampleTitle2 == <<"C", "l", "e", "a", "n", " ", "C", "o", "d", "e">>
SampleAuthor2 == <<"R", "o", "b", "e", "r", "t", " ", "M", "a", "r", "t", "i", "n">>
SampleTitle3 == <<"D", "e", "s", "i", "g", "n", " ", "P", "a", "t", "t", "e", "r", "n", "s">>
SampleAuthor3 == <<"G", "a", "n", "g", " ", "o", "f", " ", "F", "o", "u", "r">>

SampleData ==
    [i \in 1..NumSample |->
        IF i = 1 THEN Book(1, SampleTitle1, SampleAuthor1, 2015, 0, 0)
        ELSE IF i = 2 THEN Book(2, SampleTitle2, SampleAuthor2, 2008, 0, 0)
        ELSE Book(3, SampleTitle3, SampleAuthor3, 1994, 0, 0)]

\* the last id the store generates within the bounds
MaxId == NumSample + MaxBooks
\* the ids that requests name: a sample row (the code treats the three
\* alike), every row a creation can add, and an id the store never generates
ReqIds == {1} \cup ((NumSample + 1)..(MaxId + 1))
\* a value of uuid.New(): random, so none the store generates
NewUUID == MaxId + 1

(***************************************************************************)
(* Outcomes of one round trip to the store.                                *)
(*   DbOk       the statement ran and its result was read                  *)
(*   DbQueryErr the call failed before the statement ran (the connection   *)
(*              was refused)                                               *)
(*   DbTimeout  the call failed and the statement had no effect (the       *)
(*              statement timed out)                                       *)
(*   DbNoRow    the statement ran, but rows.Next() reported no row         *)
(*              (the request's context was cancelled, or the connection    *)
(*              was lost, before the returned row was read)                *)
(*   DbNone     the gateway was not called                                 *)
(***************************************************************************)
DbOk == "ok"
DbQueryErr == "queryErr"
DbTimeout == "timeout"
DbNoRow == "noRow"
DbNone == "none"

\* the outcomes in which the driver returns an error for the statement
QueryErrs == {DbQueryErr, DbTimeout}

\* set of rows as a function id -> row
Put(st, row) == [i \in (DOMAIN st) \cup {row.ID} |-> IF i = row.ID THEN row ELSE st[i]]
Remove(st, id) == [i \in (DOMAIN st) \ {id} |-> st[i]]

\* result of a gateway call: the store after it, the id sequence after it,
\* and the returned (*Book, error); a nil *Book is the empty sequence
Ret(st, nid, bk, err) == [store |-> st, nextId |-> nid, book |-> bk, err |-> err]

\* mutant: updated_at has no column default
InsertedRow_UpdatedAtUnset(nid, clock, book) ==
    Book(nid, book.Title, book.Author, book.Year, clock, ZeroTime)

\* INSERT ... RETURNING: id, created_at and updated_at are column defaults
InsertedRow(nid, clock, book) ==
    Book(nid, book.Title, book.Author, book.Year, clock, clock)

\* mutant: the gateway inserts the id of the entity instead of a generated one
RepoCreate_KeepsEntityId(st, nid, clock, book, db) ==
    IF db \in QueryErrs THEN Ret(st, nid, <<>>, ErrDatabaseError)
    ELSE LET row == Book(book.ID, book.Title, book.Author, book.Year, clock, clock)
         IN  IF db = DbOk THEN Ret(Put(st, row), nid + 1, <<row>>, Nil)
             ELSE Ret(Put(st, row), nid + 1, <<ZeroBook>>, Nil)

\* func (r *postgresBookRepository) Create
RepoCreate(st, nid, clock, book, db) ==
    IF db \in QueryErrs THEN Ret(st, nid, <<>>, ErrDatabaseError)
    ELSE LET row == InsertedRow(nid, clock, book)
         IN  IF db = DbOk THEN Ret(Put(st, row), nid + 1, <<row>>, Nil)
             ELSE Ret(Put(st, row), nid + 1, <<ZeroBook>>, Nil)

\* mutant: the statement sets author and year and leaves the title
UpdatedRow_KeepsTitle(row, clock, book) ==
    [row EXCEPT !.Author = book.Author, !.Year = book.Year, !.UpdatedAt = clock]

\* UPDATE ... WHERE id = :id RETURNING, with the trigger
\* update_books_updated_at setting updated_at to CURRENT_TIMESTAMP
UpdatedRow(row, clock, book) ==
    [row EXCEPT !.Title = book.Title, !.Author = book.Author,
                !.Year = book.Year, !.UpdatedAt = clock]

\* mutant: an unknown id is inserted (an upsert)
RepoUpdate_Upsert(st, nid, clock, id, book, db) ==
    IF db \in QueryErrs THEN Ret(st, nid, <<>>, ErrDatabaseError)
    ELSE IF id \in DOMAIN st
         THEN LET row == UpdatedRow(st[id], clock, book)
              IN  IF db = DbOk THEN Ret(Put(st, row), nid, <<row>>, Nil)
                  ELSE Ret(Put(st, row), nid, <<>>, ErrBookNotFound)
         ELSE LET row == Book(id, book.Title, book.Author, book.Year, clock, clock)
              IN  Ret(Put(st, row), nid, <<row>>, Nil)

\* mutant: the statement also resets created_at
RepoUpdate_TouchesCreatedAt(st, nid, clock, id, book, db) ==
    IF db \in QueryErrs THEN Ret(st, nid, <<>>, ErrDatabaseError)
    ELSE IF id \in DOMAIN st
         THEN LET row == [UpdatedRow(st[id], clock, book) EXCEPT !.CreatedAt = clock]
              IN  IF db = DbOk THEN Ret(Put(st, row), nid, <<row>>, Nil)
                  ELSE Ret(Put(st, row), nid, <<>>, ErrBookNotFound)
         ELSE Ret(st, nid, <<>>, ErrBookNotFound)

\* func (r *postgresBookRepository) Update
RepoUpdate(st, nid, clock, id, book, db) ==
    IF db \in QueryErrs THEN Ret(st, nid, <<>>, ErrDatabaseError)
    ELSE IF id \in DOMAIN st
         THEN LET row == UpdatedRow(st[id], clock, book)
              IN  IF db = DbOk THEN Ret(Put(st, row), nid, <<row>>, Nil)
                  ELSE Ret(Put(st, row), nid, <<>>, ErrBookNotFound)
         ELSE Ret(st, nid, <<>>, ErrBookNotFound)

\* mutant: zero rows affected is reported as success
RepoDelete_IgnoresRowsAffected(st, nid, id, db) ==
    IF db \in QueryErrs THEN Ret(st, nid, <<>>, ErrDatabaseError)
    ELSE IF id \in DOMAIN st THEN Ret(Remove(st, id), nid, <<>>, Nil)
    ELSE Ret(st, nid, <<>>, Nil)

\* mutant: DELETE FROM books without the WHERE clause
RepoDelete_NoWhere(st, nid, id, db) ==
    IF db \in QueryErrs THEN Ret(st, nid, <<>>, ErrDatabaseError)
    ELSE IF id \in DOMAIN st THEN Ret(<<>>, nid, <<>>, Nil)
    ELSE Ret(st, nid, <<>>, ErrBookNotFound)

\* func (r *postgresBookRepository) Delete
RepoDelete(st, nid, id, db) ==
    IF db \in QueryErrs THEN Ret(st, nid, <<>>, ErrDatabaseError)
    ELSE IF id \in DOMAIN st THEN Ret(Remove(st, id), nid, <<>>, Nil)
    ELSE Ret(st, nid, <<>>, ErrBookNotFound)

\* mutant: a failed query is told from sql.ErrNoRows
RepoGetByID_DatabaseError(st, nid, id, db) ==
    IF db \in QueryErrs THEN Ret(st, nid, <<>>, ErrDatabaseError)
    ELSE IF id \in DOMAIN st THEN Ret(st, nid, <<st[id]>>, Nil)
    ELSE Ret(st, nid, <<>>, ErrBookNotFound)

\* func (r *postgresBookRepository) GetByID: every error of GetContext,
\* sql.ErrNoRows included, is returned as ErrBookNotFound
RepoGetByID(st, nid, id, db) ==
    IF db \in QueryErrs THEN Ret(st, nid, <<>>, ErrBookNotFound)
    ELSE IF id \in DOMAIN st THEN Ret(st, nid, <<st[id]>>, Nil)
    ELSE Ret(st, nid, <<>>, ErrBookNotFound)

\* the rows of S in an order of ORDER BY created_at DESC: rows with equal
\* created_at come in any order
RECURSIVE OrderedByCreatedAtDesc(_, _)
OrderedByCreatedAtDesc(st, S) ==
    IF S = {} THEN {<<>>}
    ELSE LET newest == {i \in S : \A j \in S : st[j].CreatedAt <= st[i].CreatedAt}
         IN  UNION {{<<st[i]>> \o rest : rest \in OrderedByCreatedAtDesc(st, S \ {i})}
                    : i \in newest}

\* mutant: ORDER BY created_at ASC
RepoGetAll_Ascending(st, db) ==
    IF db \in QueryErrs THEN {[books |-> <<>>, err |-> ErrDatabaseError]}
    ELSE {[books |-> [k \in 1..Len(bs) |-> bs[Len(bs) + 1 - k]], err |-> Nil]
          : bs \in OrderedByCreatedAtDesc(st, DOMAIN st)}

\* mutant: the query skips the oldest row
RepoGetAll_DropsOldest(st, db) ==
    IF db \in QueryErrs THEN {[books |-> <<>>, err |-> ErrDatabaseError]}
    ELSE {[books |-> SubSeq(bs, 1, Len(bs) - 1), err |-> Nil]
          : bs \in OrderedByCreatedAtDesc(st, DOMAIN st)}

\* func (r *postgresBookRepository) GetAll: the possible ([]*Book, error)
RepoGetAll(st, db) ==
    IF db \in QueryErrs THEN {[books |-> <<>>, err |-> ErrDatabaseError]}
    ELSE {[books |-> bs, err |-> Nil] : bs \in OrderedByCreatedAtDesc(st, DOMAIN st)}

(***************************************************************************)
(* usecases: bookUseCase.  Each operator gives the store after the call    *)
(* and what the call returns; db in the result is DbNone when the gateway  *)
(* was not called.                                                         *)
(***************************************************************************)
UcRet(r, db) ==
    [store |-> r.store, nextId |-> r.nextId, book |-> r.book, err |-> r.err, db |-> db]

\* mutant: the use case calls the gateway whatever Validate returned
CreateBook_NoValidation(st, nid, clock, dto, u, db) ==
    UcRet(RepoCreate(st, nid, clock, ToBook(dto, u), db), db)

\* func (uc *bookUseCase) CreateBook
CreateBook(st, nid, clock, dto, u, db) ==
    LET err == CreateBookDTO_Validate(dto)
    IN  IF err # Nil THEN UcRet(Ret(st, nid, <<>>, err), DbNone)
        ELSE UcRet(RepoCreate(st, nid, clock, ToBook(dto, u), db), db)

\* mutant: the use case calls the gateway whatever Validate returned
UpdateBook_NoValidation(st, nid, clock, id, dto, db) ==
    UcRet(RepoUpdate(st, nid, clock, id,
                     Book(NilUUID, dto.Title, dto.Author, dto.Year, ZeroTime, ZeroTime), db), db)

\* func (uc *bookUseCase) UpdateBook: the entity takes the fields as given
UpdateBook(st, nid, clock, id, dto, db) ==
    LET err == UpdateBookDTO_Validate(dto)
    IN  IF err # Nil THEN UcRet(Ret(st, nid, <<>>, err), DbNone)
        ELSE UcRet(RepoUpdate(st, nid, clock, id,
                              Book(NilUUID, dto.Title, dto.Author, dto.Year, ZeroTime, ZeroTime),
                              db), db)

\* mutant: the use case logs the gateway's error and reports success
DeleteBook_SwallowsError(st, nid, id, db) ==
    UcRet([RepoDelete(st, nid, id, db) EXCEPT !.err = Nil], db)

\* func (uc *bookUseCase) DeleteBook
DeleteBook(st, nid, id, db) == UcRet(RepoDelete(st, nid, id, db), db)

\* func (uc *bookUseCase) GetBookByID
GetBookByID(st, nid, id, db) == UcRet(RepoGetByID(st, nid, id, db), db)

\* func (uc *bookUseCase) GetAllBooks
GetAllBooks(st, db) == RepoGetAll(st, db)

(***************************************************************************)
(* Requests.                                                               *)
(***************************************************************************)
\* the requests of the store specification: one valid request, whose title
\* and author carry surrounding white space, and requests failing validation
\* on the author, on the year (below and above the range) and on both the
\* title and the year
ReqDTOs ==
    { DTO(<<" ", "a", " ">>, <<"x", "\t">>, MinYear),
      DTO(<<"a">>, <<>>, MaxYear),
      DTO(<<"a">>, <<"x">>, MinYear - 1),
      DTO(<<"a">>, <<"x">>, MaxYear + 1),
      DTO(<<>>, <<"x">>, MaxYear + 1) }

\* the outcomes of the round trip to the store that a call can meet: none is
\* drawn for a request the use case rejects before it calls the gateway
Outcomes(verr, S) == IF verr # Nil THEN {DbOk} ELSE S

ZeroDTO == DTO(<<>>, <<>>, 0)

\* the last call of the use-case layer and what it returned
Resp(op, id, dto, db, err, book, books) ==
    [op |-> op, id |-> id, dto |-> dto, db |-> db, err |-> err,
     book |-> book, books |-> books]

NoResp == Resp("none", NilUUID, ZeroDTO, DbNone, Nil, <<>>, <<>>)

(***************************************************************************)
(* The request pipeline: delivery/http/handlers/book_handler.go, the       *)
(* middleware package and routes.SetupRoutes.                              *)
(***************************************************************************)
StatusOK == 200
StatusCreated == 201
StatusBadRequest == 400
StatusNotFound == 404
StatusTooManyRequests == 429
StatusInternalServerError == 500
\* Response.Committed is false: no status line was written
NoStatus == 0

\* err.Error()
ErrorText(err) ==
    CASE err = ErrBookNotFound  -> "book not found"
      [] err = ErrInvalidTitle  -> "title cannot be empty"
      [] err = ErrInvalidAuthor -> "author cannot be empty"
      [] err = ErrInvalidYear   -> "year must be between 1000 and 2034"
      [] err = ErrDatabaseError -> "database operation failed"
      [] OTHER                  -> err

\* a JSON body: the kind of value written, for an object the keys it has,
\* and the values of the keys of the error objects
Body(kind, keys, error, message, request_id, code, data) ==
    [kind |-> kind, keys |-> keys, error |-> error, message |-> message,
     request_id |-> request_id, code |-> code, data |-> data]

NoBody == Body("none", {}, "", "", "", 0, <<>>)

OmitEmpty(key, value) == IF value = "" THEN {} ELSE {key}

\* handlers.ErrorResponse as encoding/json writes it
ErrorResponse(error, message) ==
    Body("object", {"error"} \cup OmitEmpty("message", message),
         error, message, "", 0, <<>>)

\* handlers.SuccessResponse
SuccessResponse(message) ==
    Body("object", {"message"}, "", message, "", 0, <<>>)

\* middleware.ErrorResponse as encoding/json writes it
middleware_ErrorResponse(errorType, message, requestID, code) ==
    Body("object", {"error", "message", "code"} \cup OmitEmpty("request_id", requestID),
         errorType, message, requestID, code, <<>>)

\* c.JSON of a *entities.Book
JSONBook(book) == Body("object", {"id", "title", "author", "year", "created_at", "updated_at"},
                       "", "", "", 0, book)

\* c.JSON of a []*entities.Book: encoding/json writes a nil slice as null,
\* and the slice GetAll returns is nil unless a row was appended to it
JSONBooks(books) ==
    Body(IF Len(books) = 0 THEN "null" ELSE "array", {}, "", "", "", 0, books)

\* the body of GET /health
HealthBody == Body("object", {"status"}, "", "OK", "", 0, <<>>)

\* http.Header: a function from header names to values
EmptyHeader == [k \in {} |-> ""]
HeaderXRequestID == "X-Request-ID"
Header_Get(h, k) == IF k \in DOMAIN h THEN h[k] ELSE ""
Header_Set(h, k, v) == [x \in DOMAIN h \cup {k} |-> IF x = k THEN v ELSE h[x]]

\* mutant: the caller's X-Request-ID is ignored
DefaultMiddleware_AlwaysGenerates(reqHeader, generated) ==
    Header_Set(EmptyHeader, HeaderXRequestID, generated)

\* func DefaultMiddleware: the response header after the middleware ran;
\* generated is the value of uuid.New().String()
DefaultMiddleware(reqHeader, generated) ==
    LET headerRequestID == Header_Get(reqHeader, HeaderXRequestID)
        requestID == IF headerRequestID # "" THEN headerRequestID ELSE generated
    IN  Header_Set(EmptyHeader, HeaderXRequestID, requestID)

\* func GetRequestID
GetRequestID(respHeader) == Header_Get(respHeader, HeaderXRequestID)

\* uuid.UUID.String(): the canonical text of an id
Digit == <<"1", "2", "3", "4", "5", "6", "7", "8", "9">>
UUIDString(id) == <<"u", "-", Digit[id]>>

\* uuid.Parse: the id whose text is s, or an error
uuid_Parse(s) ==
    IF \E i \in DOMAIN Digit : UUIDString(i) = s
    THEN [id |-> CHOOSE i \in DOMAIN Digit : UUIDString(i) = s, err |-> Nil]
    ELSE [id |-> NilUUID, err |-> "invalid UUID format"]

\* a request body: JSON text of a DTO, or text that is not JSON
JSONBody(dto) == [wellFormed |-> TRUE, dto |-> dto]
MalformedBody == [wellFormed |-> FALSE, dto |-> ZeroDTO]

\* c.Bind
Bind(body) ==
    IF body.wellFormed THEN [dto |-> body.dto, err |-> Nil]
    ELSE [dto |-> ZeroDTO, err |-> "Syntax error"]

\* what a handler did: the store after it, the call it made to the use-case
\* layer (NoResp when it made none), the response it wrote, the request
\* ids it read for its log entries and the number of responses written
HandlerRet(st, nid, uc, status, body, logs) ==
    [store |-> st, nextId |-> nid, uc |-> uc, status |-> status, body |-> body,
     logs |-> logs, writes |-> IF status = NoStatus THEN 0 ELSE 1]

\* func (h *bookHandler) GetBooks; r is what GetAllBooks returned
bookHandler_GetBooks(st, nid, respHeader, db, r) ==
    LET requestID == GetRequestID(respHeader)
        uc == Resp("GetAllBooks", NilUUID, ZeroDTO, db, r.err, <<>>, r.books)
    IN  IF r.err # Nil
        THEN HandlerRet(st, nid, uc, StatusInternalServerError,
                        ErrorResponse("Failed to retrieve books", ErrorText(r.err)),
                        {requestID})
        ELSE HandlerRet(st, nid, uc, StatusOK, JSONBooks(r.books), {requestID})

\* mutant: the handler does not tell ErrBookNotFound from other errors
bookHandler_GetBook_NotFoundIs500(st, nid, idParam, db) ==
    LET p == uuid_Parse(idParam)
        r == GetBookByID(st, nid, p.id, db)
        uc == Resp("GetBookByID", p.id, ZeroDTO, r.db, r.err, r.book, <<>>)
    IN  IF p.err # Nil
        THEN HandlerRet(st, nid, NoResp, StatusBadRequest,
                        ErrorResponse("Invalid UUID format", p.err), {})
        ELSE IF r.err # Nil
        THEN HandlerRet(st, nid, uc, StatusInternalServerError,
                        ErrorResponse("Failed to retrieve book", ErrorText(r.err)), {})
        ELSE HandlerRet(st, nid, uc, StatusOK, JSONBook(r.book), {})

\* func (h *bookHandler) GetBook
bookHandler_GetBook(st, nid, idParam, db) ==
    LET p == uuid_Parse(idParam)
        r == GetBookByID(st, nid, p.id, db)
        uc == Resp("GetBookByID", p.id, ZeroDTO, r.db, r.err, r.book, <<>>)
    IN  IF p.err # Nil
        THEN HandlerRet(st, nid, NoResp, StatusBadRequest,
                        ErrorResponse("Invalid UUID format", p.err), {})
        ELSE IF r.err # Nil
        THEN IF r.err = ErrBookNotFound
             THEN HandlerRet(st, nid, uc, StatusNotFound,
                             ErrorResponse("Book not found", ErrorText(r.err)), {})
             ELSE HandlerRet(st, nid, uc, StatusInternalServerError,
                             ErrorResponse("Failed to retrieve book", ErrorText(r.err)), {})
        ELSE HandlerRet(st, nid, uc, StatusOK, JSONBook(r.book), {})

\* func (h *bookHandler) CreateBook
bookHandler_CreateBook(st, nid, clock, body, u, db) ==
    LET b == Bind(body)
        r == CreateBook(st, nid, clock, b.dto, u, db)
        uc == Resp("CreateBook", NilUUID, b.dto, r.db, r.err, r.book, <<>>)
    IN  IF b.err # Nil
        THEN HandlerRet(st, nid, NoResp, StatusBadRequest,
                        ErrorResponse("Invalid request body", b.err), {})
        ELSE IF r.err # Nil
        THEN IF r.err \in {ErrInvalidTitle, ErrInvalidAuthor, ErrInvalidYear}
             THEN HandlerRet(r.store, r.nextId, uc, StatusBadRequest,
                             ErrorResponse("Validation failed", ErrorText(r.err)), {})
             ELSE HandlerRet(r.store, r.nextId, uc, StatusInternalServerError,
                             ErrorResponse("Failed to create book", ErrorText(r.err)), {})
        ELSE HandlerRet(r.store, r.nextId, uc, StatusCreated, JSONBook(r.book), {})

\* mutant: the handler calls the use case with the zero id when the path id
\* does not parse
bookHandler_UpdateBook_NoParseCheck(st, nid, clock, idParam, body, db) ==
    LET p == uuid_Parse(idParam)
        b == Bind(body)
        r == UpdateBook(st, nid, clock, p.id, b.dto, db)
        uc == Resp("UpdateBook", p.id, b.dto, r.db, r.err, r.book, <<>>)
    IN  IF b.err # Nil
        THEN HandlerRet(st, nid, NoResp, StatusBadRequest,
                        ErrorResponse("Invalid request body", b.err), {})
        ELSE IF r.err # Nil
        THEN IF r.err = ErrBookNotFound
             THEN HandlerRet(r.store, r.nextId, uc, StatusNotFound,
                             ErrorResponse("Book not found", ErrorText(r.err)), {})
             ELSE IF r.err \in {ErrInvalidTitle, ErrInvalidAuthor, ErrInvalidYear}
             THEN HandlerRet(r.store, r.nextId, uc, StatusBadRequest,
                             ErrorResponse("Validation failed", ErrorText(r.err)), {})
             ELSE HandlerRet(r.store, r.nextId, uc, StatusInternalServerError,
                             ErrorResponse("Failed to update book", ErrorText(r.err)), {})
        ELSE HandlerRet(r.store, r.nextId, uc, StatusOK, JSONBook(r.book), {})

\* func (h *bookHandler) UpdateBook: the path id is parsed before the body
\* is bound
bookHandler_UpdateBook(st, nid, clock, idParam, body, db) ==
    LET p == uuid_Parse(idParam)
        b == Bind(body)
        r == UpdateBook(st, nid, clock, p.id, b.dto, db)
        uc == Resp("UpdateBook", p.id, b.dto, r.db, r.err, r.book, <<>>)
    IN  IF p.err # Nil
        THEN HandlerRet(st, nid, NoResp, StatusBadRequest,
                        ErrorResponse("Invalid UUID format", p.err), {})
        ELSE IF b.err # Nil
        THEN HandlerRet(st, nid, NoResp, StatusBadRequest,
                        ErrorResponse("Invalid request body", b.err), {})
        ELSE IF r.err # Nil
        THEN IF r.err = ErrBookNotFound
             THEN HandlerRet(r.store, r.nextId, uc, StatusNotFound,
                             ErrorResponse("Book not found", ErrorText(r.err)), {})
             ELSE IF r.err \in {ErrInvalidTitle, ErrInvalidAuthor, ErrInvalidYear}
             THEN HandlerRet(r.store, r.nextId, uc, StatusBadRequest,
                             ErrorResponse("Validation failed", ErrorText(r.err)), {})
             ELSE HandlerRet(r.store, r.nextId, uc, StatusInternalServerError,
                             ErrorResponse("Failed to update book", ErrorText(r.err)), {})
        ELSE HandlerRet(r.store, r.nextId, uc, StatusOK, JSONBook(r.book), {})

\* func (h *bookHandler) DeleteBook
bookHandler_DeleteBook(st, nid, idParam, db) ==
    LET p == uuid_Parse(idParam)
        r == DeleteBook(st, nid, p.id, db)
        uc == Resp("DeleteBook", p.id, ZeroDTO, r.db, r.err, r.book, <<>>)
    IN  IF p.err # Nil
        THEN HandlerRet(st, nid, NoResp, StatusBadRequest,
                        ErrorResponse("Invalid UUID format", p.err), {})
        ELSE IF r.err # Nil
        THEN IF r.err = ErrBookNotFound
             THEN HandlerRet(r.store, r.nextId, uc, StatusNotFound,
                             ErrorResponse("Book not found", ErrorText(r.err)), {})
             ELSE HandlerRet(r.store, r.nextId, uc, StatusInternalServerError,
                             ErrorResponse("Failed to delete book", ErrorText(r.err)), {})
        ELSE HandlerRet(r.store, r.nextId, uc, StatusOK,
                        SuccessResponse("Book deleted successfully"), {})

\* the handler of GET /health in SetupRoutes
HealthHandler(st, nid) == HandlerRet(st, nid, NoResp, StatusOK, HealthBody, {})

\* an error a middleware or handler returns: a domain error or an
\* *echo.HTTPError
DomainError(err) == [domain |-> err, code |-> 0, message |-> ""]
HTTPError(code, message) == [domain |-> "", code |-> code, message |-> message]

\* the switch of CustomHTTPErrorHandler
ErrorClass(err) ==
    CASE err.domain = ErrBookNotFound ->
           [code |-> StatusNotFound, errorType |-> "NOT_FOUND",
            message |-> "The requested book could not be found"]
      [] err.domain = ErrInvalidTitle ->
           [code |-> StatusBadRequest, errorType |-> "VALIDATION_ERROR",
            message |-> "Book title is required and cannot be empty"]
      [] err.domain = ErrInvalidAuthor ->
           [code |-> StatusBadRequest, errorType |-> "VALIDATION_ERROR",
            message |-> "Book author is required and cannot be empty"]
      [] err.domain = ErrInvalidYear ->
           [code |-> StatusBadRequest, errorType |-> "VALIDATION_ERROR",
            message |-> "Publication year must be between 1000 and 2034"]
      [] err.domain = ErrInvalidUUID ->
           [code |-> StatusBadRequest, errorType |-> "VALIDATION_ERROR",
            message |-> "Invalid UUID format provided"]
      [] err.domain = ErrDatabaseError ->
           [code |-> StatusInternalServerError, errorType |-> "INTERNAL_ERROR",
            message |-> "A database error occurred. Please try again later"]
      [] err.domain = "" /\ err.code # 0 ->
           [code |-> err.code, errorType |-> "HTTP_ERROR", message |-> err.message]
      [] OTHER ->
           [code |-> StatusInternalServerError, errorType |-> "INTERNAL_ERROR",
            message |-> "An unexpected error occurred. Please try again later"]

\* mutant: the error response is written whether or not a response was
\* committed before
CustomHTTPErrorHandler_IgnoresCommitted(err, respHeader, r) ==
    LET requestID == GetRequestID(respHeader)
        c == ErrorClass(err)
        logged == [r EXCEPT !.logs = @ \cup {requestID}]
    IN  [logged EXCEPT !.status = c.code,
                       !.body = middleware_ErrorResponse(c.errorType, c.message,
                                                         requestID, c.code),
                       !.writes = @ + 1]

\* func (eh *ErrorHandler) CustomHTTPErrorHandler: r is the response so far
CustomHTTPErrorHandler(err, respHeader, r) ==
    LET requestID == GetRequestID(respHeader)
        c == ErrorClass(err)
        logged == [r EXCEPT !.logs = @ \cup {requestID}]
    IN  IF r.status # NoStatus THEN logged
        ELSE [logged EXCEPT !.status = c.code,
                            !.body = middleware_ErrorResponse(c.errorType, c.message,
                                                              requestID, c.code),
                            !.writes = @ + 1]

\* where a request meets a panic
NoPanic == "none"
PanicBefore == "before the handler wrote a response"
PanicAfter == "after the handler wrote its response"

\* mutant: no deferred recover(); net/http ends the request as it is
Recover_Propagates(panicked, respHeader, r) == r

\* func (eh *ErrorHandler) Recover: r is what next(c) did until it returned
\* or panicked
Recover(panicked, respHeader, r) ==
    IF panicked
    THEN CustomHTTPErrorHandler(HTTPError(StatusInternalServerError,
                                          "Internal server error occurred"),
                                respHeader, r)
    ELSE r

\* burst of the limiter NewSecurityMiddleware builds from RateLimitBurst
RateLimitBurst == 2

\* func NewSecurityMiddleware: the limiter starts with a full bucket; there
\* is no limiter when rate limiting is disabled
NewSecurityMiddleware(EnableRateLimit) == IF EnableRateLimit THEN RateLimitBurst ELSE 0

\* mutant: the health check draws from the bucket like any other request
RateLimiter_NoHealthSkip(EnableRateLimit, path, tk) ==
    IF ~EnableRateLimit THEN [admit |-> TRUE, tokens |-> tk]
    ELSE IF tk > 0 THEN [admit |-> TRUE, tokens |-> tk - 1]
    ELSE [admit |-> FALSE, tokens |-> tk]

\* func (sm *SecurityMiddleware) RateLimiter: whether next is called, and
\* the bucket after rateLimiter.Allow()
RateLimiter(EnableRateLimit, path, tk) ==
    IF ~EnableRateLimit THEN [admit |-> TRUE, tokens |-> tk]
    ELSE IF path = "/health" THEN [admit |-> TRUE, tokens |-> tk]
    ELSE IF tk > 0 THEN [admit |-> TRUE, tokens |-> tk - 1]
    ELSE [admit |-> FALSE, tokens |-> tk]

StatusUnauthorized == 401

\* SecurityConfig.APIKeyHeader and SecurityConfig.AllowedAPIKeys
APIKeyHeader == "X-API-Key"
AllowedAPIKeys == {"key-1"}

\* mutant: any key that is not empty is accepted
APIKeyAuth_AcceptsAnyKey(EnableAPIKey, path, reqHeader) ==
    LET apiKey == Header_Get(reqHeader, APIKeyHeader)
    IN  IF ~EnableAPIKey THEN [admit |-> TRUE, message |-> ""]
        ELSE IF path = "/health" \/ path = "/metrics" THEN [admit |-> TRUE, message |-> ""]
        ELSE IF apiKey = "" THEN [admit |-> FALSE, message |-> "API key required"]
        ELSE [admit |-> TRUE, message |-> ""]

\* func (sm *SecurityMiddleware) APIKeyAuth: whether next is called, and the
\* message of the 401 error returned when it is not
APIKeyAuth(EnableAPIKey, path, reqHeader) ==
    LET apiKey == Header_Get(reqHeader, APIKeyHeader)
    IN  IF ~EnableAPIKey THEN [admit |-> TRUE, message |-> ""]
        ELSE IF path = "/health" \/ path = "/metrics" THEN [admit |-> TRUE, message |-> ""]
        ELSE IF apiKey = "" THEN [admit |-> FALSE, message |-> "API key required"]
        ELSE IF \E validAPIKey \in AllowedAPIKeys : apiKey = validAPIKey
             THEN [admit |-> TRUE, message |-> ""]
        ELSE [admit |-> FALSE, message |-> "Invalid API key"]

\* a request: its headers, the id in its path and its body
Request(header, idParam, body) == [header |-> header, idParam |-> idParam, body |-> body]

\* the response a request ended with: status NoStatus when none was written
HttpResp(route, req, r, respHeader, handled, fault) ==
    [route |-> route, req |-> req, status |-> r.status, body |-> r.body,
     header |-> respHeader, logs |-> r.logs, uc |-> r.uc,
     handled |-> handled, panic |-> fault, writes |-> r.writes]

NoHttp ==
    HttpResp("none", Request(EmptyHeader, <<>>, MalformedBody),
             HandlerRet(<<>>, 0, NoResp, NoStatus, NoBody, {}), EmptyHeader, FALSE, NoPanic)

\* the requests served concurrently: two updates of one row, a delete of a
\* second row and a create
ConcReqs == {"U1", "U2", "D", "C"}

\* no request has entered the use-case layer
NoConc ==
    [pc |-> [r \in ConcReqs |-> "idle"], err |-> [r \in ConcReqs |-> Nil],
     at |-> [r \in ConcReqs |-> 0], order |-> <<>>]

\* BookProvider before its first effect ran: useState<Book[]>([]) and no
\* call of bookAPI in flight
NoClient == [loaded |-> FALSE, books |-> <<>>, pending |-> {}, issued |-> 0]

Pending == "pending"

Init ==
    /\ store = SampleData
    /\ now = 0
    /\ nextId = NumSample + 1
    /\ last = NoResp
    /\ vdto = ZeroDTO
    /\ vcreate = Pending
    /\ vupdate = Pending
    /\ resp = NoHttp
    /\ rateOn = FALSE
    /\ apiKeyOn = FALSE
    /\ conc = NoConc
    /\ client = NoClient
    /\ tokens = NewSecurityMiddleware(rateOn)

\* POST /books
DoCreateBook(dto, u, db) ==
    LET r == CreateBook(store, nextId, now, dto, u, db)
    IN  /\ r.nextId <= MaxId + 1
        /\ store' = r.store
        /\ nextId' = r.nextId
        /\ last' = Resp("CreateBook", NilUUID, dto, r.db, r.err, r.book, <<>>)
        /\ UNCHANGED <<now, vdto, vcreate, vupdate, http, side>>

\* PUT /books/:id
DoUpdateBook(id, dto, db) ==
    LET r == UpdateBook(store, nextId, now, id, dto, db)
    IN  /\ store' = r.store
        /\ nextId' = r.nextId
        /\ last' = Resp("UpdateBook", id, dto, r.db, r.err, r.book, <<>>)
        /\ UNCHANGED <<now, vdto, vcreate, vupdate, http, side>>

\* DELETE /books/:id
DoDeleteBook(id, db) ==
    LET r == DeleteBook(store, nextId, id, db)
    IN  /\ store' = r.store
        /\ nextId' = r.nextId
        /\ last' = Resp("DeleteBook", id, ZeroDTO, r.db, r.err, r.book, <<>>)
        /\ UNCHANGED <<now, vdto, vcreate, vupdate, http, side>>

\* GET /books/:id
DoGetBookByID(id, db) ==
    LET r == GetBookByID(store, nextId, id, db)
    IN  /\ last' = Resp("GetBookByID", id, ZeroDTO, r.db, r.err, r.book, <<>>)
        /\ UNCHANGED <<store, nextId, now, vdto, vcreate, vupdate, http, side>>

\* GET /books
DoGetAllBooks(db) ==
    \E r \in GetAllBooks(store, db) :
        /\ last' = Resp("GetAllBooks", NilUUID, ZeroDTO, db, r.err, <<>>, r.books)
        /\ UNCHANGED <<store, nextId, now, vdto, vcreate, vupdate, http, side>>

\* the store's clock advances
Tick ==
    /\ now < MaxClock
    /\ now' = now + 1
    /\ UNCHANGED <<store, nextId, last, vdto, vcreate, vupdate, http, side>>

Next ==
    \/ \E dto \in ReqDTOs :
         \E db \in Outcomes(CreateBookDTO_Validate(dto), {DbOk, DbQueryErr, DbNoRow}) :
            DoCreateBook(dto, NewUUID, db)
    \/ \E id \in ReqIds, dto \in ReqDTOs :
         \E db \in Outcomes(UpdateBookDTO_Validate(dto), {DbOk, DbQueryErr, DbNoRow}) :
            DoUpdateBook(id, dto, db)
    \/ \E id \in ReqIds, db \in {DbOk, DbQueryErr} : DoDeleteBook(id, db)
    \/ \E id \in ReqIds, db \in {DbOk, DbQueryErr} : DoGetBookByID(id, db)
    \/ \E db \in {DbOk, DbQueryErr} : DoGetAllBooks(db)
    \/ Tick

Spec == Init /\ [][Next]_vars

(***************************************************************************)
(* Validation on its own: a request is drawn, and both Validate methods    *)
(* are applied to it.                                                      *)
(***************************************************************************)
Alphabet == {" ", "\t", "a"}

RECURSIVE Strings(_)
Strings(n) ==
    IF n = 0 THEN {<<>>}
    ELSE LET shorter == Strings(n - 1)
         IN  shorter \cup {Append(s, c) : s \in shorter, c \in Alphabet}

ValYears == {-1, 0, MinYear - 1, MinYear, MinYear + 1, MaxYear - 1, MaxYear, MaxYear + 1}

ValDTOs == {DTO(t, a, y) : t \in Strings(MaxLen), a \in Strings(MaxLen), y \in ValYears}

InitValidate ==
    /\ store = SampleData
    /\ now = 0
    /\ nextId = NumSample + 1
    /\ last = NoResp
    /\ vdto \in ValDTOs
    /\ vcreate = Pending
    /\ vupdate = Pending
    /\ resp = NoHttp
    /\ rateOn = FALSE
    /\ apiKeyOn = FALSE
    /\ conc = NoConc
    /\ client = NoClient
    /\ tokens = NewSecurityMiddleware(rateOn)

ValidateCreate ==
    /\ vcreate = Pending
    /\ vcreate' = CreateBookDTO_Validate(vdto)
    /\ UNCHANGED <<store, now, nextId, last, vdto, vupdate, http, side>>

ValidateUpdate ==
    /\ vupdate = Pending
    /\ vupdate' = UpdateBookDTO_Validate(vdto)
    /\ UNCHANGED <<store, now, nextId, last, vdto, vcreate, http, side>>

NextValidate == ValidateCreate \/ ValidateUpdate

SpecValidate == InitValidate /\ [][NextValidate]_vars

(***************************************************************************)
(* The request pipeline as a whole: Recover, DefaultMiddleware, APIKeyAuth, *)
(* RateLimiter and the handler of the route.  A step serves one request at *)
(* one instant of the store's clock.                                       *)
(***************************************************************************)
SuppliedRequestID == "rid-1"
ReqHeaders == {EmptyHeader, Header_Set(EmptyHeader, HeaderXRequestID, SuppliedRequestID)}

\* the values uuid.New().String() can give
GenIds == {"generated-1"}

Faults == {NoPanic, PanicBefore, PanicAfter}

ValidDTO == DTO(<<" ", "a", " ">>, <<"x", "\t">>, MinYear)
EmptyTitleDTO == DTO(<<>>, <<"x">>, 2000)
HttpBodies == {JSONBody(ValidDTO), JSONBody(EmptyTitleDTO), MalformedBody}

MalformedId == <<"x">>
UnknownId == UUIDString(MaxId + 1)
ReadParams == {UUIDString(1), UnknownId, MalformedId}
DeleteParams == {UUIDString(i) : i \in 1..NumSample} \cup {UnknownId, MalformedId}

InitHttp ==
    /\ store = SampleData
    /\ now = 0
    /\ nextId = NumSample + 1
    /\ last = NoResp
    /\ vdto = ZeroDTO
    /\ vcreate = Pending
    /\ vupdate = Pending
    /\ resp = NoHttp
    /\ rateOn = FALSE
    /\ apiKeyOn = FALSE
    /\ conc = NoConc
    /\ client = NoClient
    /\ tokens = NewSecurityMiddleware(rateOn)

\* one request through the middleware chain; respHeader is the response
\* header DefaultMiddleware left, h what the handler does when it runs to
\* its end
Serve(route, path, req, respHeader, fault, h) ==
    LET auth == APIKeyAuth(apiKeyOn, path, req.header)
        rl == IF auth.admit THEN RateLimiter(rateOn, path, tokens)
              ELSE [admit |-> FALSE, tokens |-> tokens]
        idle == HandlerRet(store, nextId, NoResp, NoStatus, NoBody, {})
        out == IF ~auth.admit
               THEN CustomHTTPErrorHandler(HTTPError(StatusUnauthorized, auth.message),
                                           respHeader, idle)
               ELSE IF ~rl.admit
               THEN CustomHTTPErrorHandler(HTTPError(StatusTooManyRequests,
                                                     "Rate limit exceeded"),
                                           respHeader, idle)
               ELSE Recover(fault # NoPanic, respHeader,
                            IF fault = PanicBefore THEN idle ELSE h)
    IN  /\ out.nextId <= MaxId + 1
        /\ store' = out.store
        /\ nextId' = out.nextId
        /\ tokens' = rl.tokens
        /\ resp' = HttpResp(route, req, out, respHeader, rl.admit,
                            IF rl.admit THEN fault ELSE NoPanic)
        /\ UNCHANGED <<now, last, rateOn, apiKeyOn, val, side>>

\* GET /books
ServeGetBooks(header, g, fault, db) ==
    LET respHeader == DefaultMiddleware(header, g)
    IN  \E r \in GetAllBooks(store, db) :
            Serve("GET /books", "/books", Request(header, <<>>, MalformedBody),
                  respHeader, fault,
                  bookHandler_GetBooks(store, nextId, respHeader, db, r))

\* GET /books/:id
ServeGetBook(header, g, fault, idParam, db) ==
    Serve("GET /books/:id", "/books/:id", Request(header, idParam, MalformedBody),
          DefaultMiddleware(header, g), fault,
          bookHandler_GetBook(store, nextId, idParam, db))

\* POST /books
ServeCreateBook(header, g, fault, body, db) ==
    Serve("POST /books", "/books", Request(header, <<>>, body),
          DefaultMiddleware(header, g), fault,
          bookHandler_CreateBook(store, nextId, now, body, NewUUID, db))

\* PUT /books/:id
ServeUpdateBook(header, g, fault, idParam, body, db) ==
    Serve("PUT /books/:id", "/books/:id", Request(header, idParam, body),
          DefaultMiddleware(header, g), fault,
          bookHandler_UpdateBook(store, nextId, now, idParam, body, db))

\* DELETE /books/:id
ServeDeleteBook(header, g, fault, idParam, db) ==
    Serve("DELETE /books/:id", "/books/:id", Request(header, idParam, MalformedBody),
          DefaultMiddleware(header, g), fault,
          bookHandler_DeleteBook(store, nextId, idParam, db))

\* GET /health
ServeHealth(header, g, fault) ==
    Serve("GET /health", "/health", Request(header, <<>>, MalformedBody),
          DefaultMiddleware(header, g), fault, HealthHandler(store, nextId))

\* time passes and the limiter's bucket gains a token
Refill ==
    /\ rateOn
    /\ tokens < RateLimitBurst
    /\ tokens' = tokens + 1
    /\ UNCHANGED <<store, now, nextId, last, resp, rateOn, apiKeyOn, val, side>>

\* the outcomes of the round trip to the store a request can meet: none is
\* drawn for a request that does not get as far as the gateway
HttpOutcomes(fault, idParam, body, verr, S) ==
    IF /\ fault # PanicBefore
       /\ uuid_Parse(idParam).err = Nil
       /\ body.wellFormed
       /\ verr = Nil
    THEN S ELSE {DbOk}

NextHttp ==
    \/ \E header \in ReqHeaders, g \in GenIds, fault \in Faults :
         \E db \in HttpOutcomes(fault, UUIDString(1), JSONBody(ValidDTO), Nil,
                                {DbOk, DbQueryErr}) :
           ServeGetBooks(header, g, fault, db)
    \/ \E header \in ReqHeaders, g \in GenIds, fault \in Faults, idParam \in ReadParams :
         \E db \in HttpOutcomes(fault, idParam, JSONBody(ValidDTO), Nil,
                                {DbOk, DbQueryErr}) :
           ServeGetBook(header, g, fault, idParam, db)
    \/ \E header \in ReqHeaders, g \in GenIds, fault \in Faults, body \in HttpBodies :
         \E db \in HttpOutcomes(fault, UUIDString(1), body,
                                CreateBookDTO_Validate(body.dto),
                                {DbOk, DbQueryErr, DbNoRow}) :
           ServeCreateBook(header, g, fault, body, db)
    \/ \E header \in ReqHeaders, g \in GenIds, fault \in Faults,
          idParam \in ReadParams, body \in HttpBodies :
         \E db \in HttpOutcomes(fault, idParam, body,
                                UpdateBookDTO_Validate(body.dto),
                                {DbOk, DbQueryErr, DbNoRow}) :
           ServeUpdateBook(header, g, fault, idParam, body, db)
    \/ \E header \in ReqHeaders, g \in GenIds, fault \in Faults, idParam \in DeleteParams :
         \E db \in HttpOutcomes(fault, idParam, JSONBody(ValidDTO), Nil,
                                {DbOk, DbQueryErr, DbTimeout}) :
           ServeDeleteBook(header, g, fault, idParam, db)
    \/ \E header \in ReqHeaders, g \in GenIds, fault \in Faults :
           ServeHealth(header, g, fault)

SpecHttp == InitHttp /\ [][NextHttp]_vars

(***************************************************************************)
(* The pipeline with SecurityConfig.EnableRateLimit set: every route is    *)
(* served, for one request of each kind, while the bucket drains and       *)
(* refills.                                                                *)
(***************************************************************************)
RateParams == {UUIDString(1), UnknownId}

InitRate ==
    /\ store = SampleData
    /\ now = 0
    /\ nextId = NumSample + 1
    /\ last = NoResp
    /\ vdto = ZeroDTO
    /\ vcreate = Pending
    /\ vupdate = Pending
    /\ resp = NoHttp
    /\ rateOn = TRUE
    /\ apiKeyOn = FALSE
    /\ conc = NoConc
    /\ client = NoClient
    /\ tokens = NewSecurityMiddleware(rateOn)

NextRate ==
    \/ \E g \in GenIds : ServeGetBooks(EmptyHeader, g, NoPanic, DbOk)
    \/ \E g \in GenIds, idParam \in RateParams :
           ServeGetBook(EmptyHeader, g, NoPanic, idParam, DbOk)
    \/ \E g \in GenIds : ServeCreateBook(EmptyHeader, g, NoPanic, JSONBody(ValidDTO), DbOk)
    \/ \E g \in GenIds, idParam \in RateParams :
           ServeUpdateBook(EmptyHeader, g, NoPanic, idParam, JSONBody(ValidDTO), DbOk)
    \/ \E g \in GenIds, idParam \in RateParams :
           ServeDeleteBook(EmptyHeader, g, NoPanic, idParam, DbOk)
    \/ \E g \in GenIds : ServeHealth(EmptyHeader, g, NoPanic)
    \/ Refill

SpecRate == InitRate /\ [][NextRate]_vars

(***************************************************************************)
(* The pipeline with SecurityConfig.EnableAPIKey set: every route is       *)
(* served for requests without a key, with an allowed key and with a key   *)
(* that is not allowed.                                                    *)
(***************************************************************************)
AuthHeaders ==
    {EmptyHeader, Header_Set(EmptyHeader, APIKeyHeader, "key-1"),
     Header_Set(EmptyHeader, APIKeyHeader, "key-2")}

InitAuth ==
    /\ store = SampleData
    /\ now = 0
    /\ nextId = NumSample + 1
    /\ last = NoResp
    /\ vdto = ZeroDTO
    /\ vcreate = Pending
    /\ vupdate = Pending
    /\ resp = NoHttp
    /\ rateOn = FALSE
    /\ apiKeyOn = TRUE
    /\ conc = NoConc
    /\ client = NoClient
    /\ tokens = NewSecurityMiddleware(rateOn)

NextAuth ==
    \/ \E header \in AuthHeaders, g \in GenIds : ServeGetBooks(header, g, NoPanic, DbOk)
    \/ \E header \in AuthHeaders, g \in GenIds, idParam \in RateParams :
           ServeGetBook(header, g, NoPanic, idParam, DbOk)
    \/ \E header \in AuthHeaders, g \in GenIds :
           ServeCreateBook(header, g, NoPanic, JSONBody(ValidDTO), DbOk)
    \/ \E header \in AuthHeaders, g \in GenIds, idParam \in RateParams :
           ServeUpdateBook(header, g, NoPanic, idParam, JSONBody(ValidDTO), DbOk)
    \/ \E header \in AuthHeaders, g \in GenIds, idParam \in RateParams :
           ServeDeleteBook(header, g, NoPanic, idParam, DbOk)
    \/ \E header \in AuthHeaders, g \in GenIds : ServeHealth(header, g, NoPanic)

SpecAuth == InitAuth /\ [][NextAuth]_vars

(***************************************************************************)
(* Requests served concurrently.  Each request runs in its own goroutine:  *)
(* it enters the use case, and later its one statement runs at the store,  *)
(* which executes statements one at a time.  The steps of different        *)
(* requests interleave in any order, and the clock may advance in between. *)
(***************************************************************************)
SecondDTO == DTO(<<"b">>, <<"y">>, MaxYear)

\* what each of the concurrent requests asks for
ConcRequest(r) ==
    CASE r = "U1" -> [op |-> "UpdateBook", id |-> 1, dto |-> ValidDTO]
      [] r = "U2" -> [op |-> "UpdateBook", id |-> 1, dto |-> SecondDTO]
      [] r = "D"  -> [op |-> "DeleteBook", id |-> 2, dto |-> ZeroDTO]
      [] OTHER    -> [op |-> "CreateBook", id |-> NilUUID, dto |-> ValidDTO]

\* the use case of request r, called on store st at time clock
ConcCall(r, st, nid, clock) ==
    LET q == ConcRequest(r)
    IN  CASE q.op = "UpdateBook" -> UpdateBook(st, nid, clock, q.id, q.dto, DbOk)
          [] q.op = "DeleteBook" -> DeleteBook(st, nid, q.id, DbOk)
          [] OTHER               -> CreateBook(st, nid, clock, q.dto, NewUUID, DbOk)

InitConc ==
    /\ store = SampleData
    /\ now = 0
    /\ nextId = NumSample + 1
    /\ last = NoResp
    /\ vdto = ZeroDTO
    /\ vcreate = Pending
    /\ vupdate = Pending
    /\ resp = NoHttp
    /\ rateOn = FALSE
    /\ apiKeyOn = FALSE
    /\ conc = NoConc
    /\ client = NoClient
    /\ tokens = NewSecurityMiddleware(rateOn)

\* request r arrives and its goroutine runs up to the call of the gateway
ConcBegin(r) ==
    /\ conc.pc[r] = "idle"
    /\ conc' = [conc EXCEPT !.pc[r] = "begun"]
    /\ UNCHANGED <<store, now, nextId, last, val, http, client>>

\* the statement of request r runs at the store and the use case returns
ConcExec(r) ==
    /\ conc.pc[r] = "begun"
    /\ LET out == ConcCall(r, store, nextId, now)
       IN  /\ store' = out.store
           /\ nextId' = out.nextId
           /\ conc' = [conc EXCEPT !.pc[r] = "done", !.err[r] = out.err,
                                   !.at[r] = now, !.order = Append(@, r)]
    /\ UNCHANGED <<now, last, val, http, client>>

NextConc ==
    \/ \E r \in ConcReqs : ConcBegin(r)
    \/ \E r \in ConcReqs : ConcExec(r)
    \/ Tick

SpecConc == InitConc /\ [][NextConc]_vars

(***************************************************************************)
(* The browser client: frontend/src/contexts/BookContext.tsx over          *)
(* frontend/src/api/books.ts.  A call of bookAPI sends its request, which  *)
(* the server handles, and the promise settles later: the calls in flight  *)
(* settle in any order.                                                    *)
(***************************************************************************)
\* response.ok
response_ok(h) == h.status \in 200..299

\* response.json() of a body holding one Book
response_json(h) ==
    IF Len(h.body.data) = 1 THEN h.body.data[1]
    ELSE Book(NilUUID, <<>>, <<>>, 0, ZeroTime, ZeroTime)

\* a call of bookAPI in flight: n numbers the calls in the order issued
ClientCall(n, kind, id, h) ==
    [n |-> n, kind |-> kind, id |-> id, ok |-> response_ok(h),
     book |-> IF kind # "deleteBook" /\ response_ok(h) THEN <<response_json(h)>> ELSE <<>>]

\* the updaters handed to setBooks
addBook(prev, newBook) == <<newBook>> \o prev
updateBook(prev, id, updatedBook) ==
    [k \in 1..Len(prev) |-> IF prev[k].ID = id THEN updatedBook ELSE prev[k]]
RECURSIVE deleteBook(_, _)
deleteBook(prev, id) ==
    IF prev = <<>> THEN <<>>
    ELSE IF Head(prev).ID # id THEN <<Head(prev)>> \o deleteBook(Tail(prev), id)
    ELSE deleteBook(Tail(prev), id)

\* what the client asks for
ClientDTOs == {ValidDTO, SecondDTO}
ClientIds == {1, 2}
ClientOutcomes == {DbOk, DbQueryErr}

InitClient ==
    /\ store = SampleData
    /\ now = 0
    /\ nextId = NumSample + 1
    /\ last = NoResp
    /\ vdto = ZeroDTO
    /\ vcreate = Pending
    /\ vupdate = Pending
    /\ resp = NoHttp
    /\ rateOn = FALSE
    /\ apiKeyOn = FALSE
    /\ conc = NoConc
    /\ client = NoClient
    /\ tokens = NewSecurityMiddleware(rateOn)

\* useEffect(() => { refreshBooks() }, []): the initial load
ClientLoad(db) ==
    /\ ~client.loaded
    /\ \E r \in GetAllBooks(store, db) :
         LET h == bookHandler_GetBooks(store, nextId, EmptyHeader, db, r)
         IN  client' = IF response_ok(h)
                       THEN [client EXCEPT !.loaded = TRUE, !.books = h.body.data]
                       ELSE client
    /\ UNCHANGED <<store, now, nextId, last, val, http, conc>>

\* a call of the client is issued and the server handles its request as h
ClientIssue(kind, id, h) ==
    /\ client.loaded
    /\ client.issued < MaxCalls
    /\ h.nextId <= MaxId + 1
    /\ store' = h.store
    /\ nextId' = h.nextId
    /\ client' = [client EXCEPT !.issued = @ + 1,
                                !.pending = @ \cup {ClientCall(client.issued + 1, kind, id, h)}]
    /\ UNCHANGED <<now, last, val, http, conc>>

IssueAddBook(dto, db) ==
    ClientIssue("addBook", NilUUID,
                bookHandler_CreateBook(store, nextId, now, JSONBody(dto), NewUUID, db))

IssueUpdateBook(id, dto, db) ==
    ClientIssue("updateBook", id,
                bookHandler_UpdateBook(store, nextId, now, UUIDString(id), JSONBody(dto), db))

IssueDeleteBook(id, db) ==
    ClientIssue("deleteBook", id,
                bookHandler_DeleteBook(store, nextId, UUIDString(id), db))

\* the promise of call c settles: on success the updater of the call is
\* applied to the list, on failure the call throws and the list stays
ClientComplete(c) ==
    /\ c \in client.pending
    /\ client' = [client EXCEPT
                    !.pending = @ \ {c},
                    !.books = IF ~c.ok THEN @
                              ELSE IF c.kind = "addBook" THEN addBook(@, c.book[1])
                              ELSE IF c.kind = "updateBook" THEN updateBook(@, c.id, c.book[1])
                              ELSE deleteBook(@, c.id)]
    /\ UNCHANGED <<store, now, nextId, last, val, http, conc>>

NextClient ==
    \/ \E db \in ClientOutcomes : ClientLoad(db)
    \/ \E dto \in ClientDTOs, db \in ClientOutcomes : IssueAddBook(dto, db)
    \/ \E id \in ClientIds, dto \in ClientDTOs, db \in ClientOutcomes :
           IssueUpdateBook(id, dto, db)
    \/ \E id \in ClientIds, db \in ClientOutcomes : IssueDeleteBook(id, db)
    \/ \E c \in client.pending : ClientComplete(c)

SpecClient == InitClient /\ [][NextClient]_vars

(***************************************************************************)
(* Properties of Validate (specification SpecValidate).                    *)
(***************************************************************************)
YearOutOfRange(y) == y < MinYear \/ y > MaxYear

\* what the claims expect of a request, stated with Blank and not with the
\* code's TrimSpace
Expected(dto) ==
    IF Blank(dto.Title) THEN ErrInvalidTitle
    ELSE IF Blank(dto.Author) THEN ErrInvalidAuthor
    ELSE IF YearOutOfRange(dto.Year) THEN ErrInvalidYear
    ELSE Nil

\* C1: a creation or update request whose title is empty or white space only
\* is rejected with InvalidTitle, whatever its author and year
C1_BlankTitleIsInvalidTitle ==
    Blank(vdto.Title) =>
        /\ vcreate \in {Pending, ErrInvalidTitle}
        /\ vupdate \in {Pending, ErrInvalidTitle}

\* C1 witness: a white-space-only title with a blank author and a year out
\* of range, rejected by both methods
C1_Witness ==
    /\ vdto.Title # <<>>
    /\ Blank(vdto.Title)
    /\ Blank(vdto.Author)
    /\ YearOutOfRange(vdto.Year)
    /\ vcreate = ErrInvalidTitle
    /\ vupdate = ErrInvalidTitle

\* C2 as stated: a request whose year is below 1000 or above 2034 is rejected
\* with InvalidYear
C2_YearOutOfRangeIsInvalidYear ==
    YearOutOfRange(vdto.Year) =>
        /\ vcreate \in {Pending, ErrInvalidYear}
        /\ vupdate \in {Pending, ErrInvalidYear}

\* C2 amended: a request whose title and author are both non-blank and whose
\* year is below 1000 or above 2034 is rejected with InvalidYear
C2_YearOutOfRangeAfterTitleAndAuthor ==
    (~Blank(vdto.Title) /\ ~Blank(vdto.Author) /\ YearOutOfRange(vdto.Year)) =>
        /\ vcreate \in {Pending, ErrInvalidYear}
        /\ vupdate \in {Pending, ErrInvalidYear}

\* C2 witness: a request with a good title and author and the year 2035,
\* rejected with InvalidYear by both methods
C2_Witness ==
    /\ ~Blank(vdto.Title)
    /\ ~Blank(vdto.Author)
    /\ vdto.Year = MaxYear + 1
    /\ vcreate = ErrInvalidYear
    /\ vupdate = ErrInvalidYear

\* C3: both Validate methods return the first failure in the order title,
\* author, year, agree on equal input, and accept exactly the requests with
\* non-blank title and author and 1000 <= year <= 2034
C3_SameRulesSameOrder ==
    /\ vcreate # Pending => vcreate = Expected(vdto)
    /\ vupdate # Pending => vupdate = Expected(vdto)
    /\ (vcreate # Pending /\ vupdate # Pending) => vcreate = vupdate
    /\ vcreate = ErrInvalidAuthor => ~Blank(vdto.Title)
    /\ vupdate = ErrInvalidAuthor => ~Blank(vdto.Title)
    /\ vcreate = ErrInvalidYear => (~Blank(vdto.Title) /\ ~Blank(vdto.Author))
    /\ vupdate = ErrInvalidYear => (~Blank(vdto.Title) /\ ~Blank(vdto.Author))
    /\ vcreate = Nil <=>
          (vcreate # Pending /\ ~Blank(vdto.Title) /\ ~Blank(vdto.Author)
             /\ vdto.Year \in MinYear..MaxYear)
    /\ vupdate = Nil <=>
          (vupdate # Pending /\ ~Blank(vdto.Title) /\ ~Blank(vdto.Author)
             /\ vdto.Year \in MinYear..MaxYear)

\* C3 witness: a request at the upper bound of the year, with white space
\* around its title, accepted by both methods
C3_Witness ==
    /\ vdto.Year = MaxYear
    /\ Len(vdto.Title) > 1
    /\ Head(vdto.Title) \in WhiteSpace
    /\ vcreate = Nil
    /\ vupdate = Nil

(***************************************************************************)
(* Properties of the use-case layer and the store (specification Spec).    *)
(* A step that leaves the clock alone is a call of the use-case layer, and *)
(* last' is that call and what it returned.                                *)
(***************************************************************************)
Called(op) == now' = now /\ last'.op = op

WellFormed(row) ==
    /\ ~Blank(row.Title)
    /\ ~Blank(row.Author)
    /\ row.Year \in MinYear..MaxYear

\* the ids the store has generated so far, and those of them that were deleted
Generated == 1..(nextId - 1)
Deleted == Generated \ DOMAIN store

\* C4: CreateBook and UpdateBook with a request that fails validation return
\* that validation error and no Book, do not call the gateway, and leave the
\* store unchanged
C4_RejectedBeforeStorage ==
    [][ ((Called("CreateBook") \/ Called("UpdateBook")) /\ Expected(last'.dto) # Nil) =>
            /\ last'.err = Expected(last'.dto)
            /\ last'.book = <<>>
            /\ last'.db = DbNone
            /\ store' = store
            /\ nextId' = nextId ]_vars

\* C4 witness: an update of an existing row with a year out of range was
\* rejected, and the row is as init.sql inserted it
C4_Witness ==
    /\ last.op = "UpdateBook"
    /\ last.err = ErrInvalidYear
    /\ last.db = DbNone
    /\ last.book = <<>>
    /\ last.id \in 1..NumSample
    /\ last.id \in DOMAIN store
    /\ store[last.id] = SampleData[last.id]

\* C5: every persisted book has a non-blank title, a non-blank author and a
\* year within [1000, 2034]
C5_PersistedBooksWellFormed ==
    \A id \in DOMAIN store : WellFormed(store[id])

\* C5 witness: the store holds a created row and a row whose title an update
\* wrote with its surrounding white space, after a rejected request
C5_Witness ==
    /\ last.err \in ValidationErrors
    /\ \E id \in DOMAIN store : id > NumSample
    /\ \E id \in DOMAIN store :
          /\ store[id].Title # TrimSpace(store[id].Title)
          /\ store[id].UpdatedAt > store[id].CreatedAt

\* C6: a CreateBook that returns no error returns a Book with a non-empty id,
\* the trimmed title and author of the request, its year, and
\* created_at = updated_at
C6_CreatedBookMatchesRequest ==
    (last.op = "CreateBook" /\ last.err = Nil) =>
        /\ Len(last.book) = 1
        /\ last.book[1].ID # NilUUID
        /\ last.book[1].Title = TrimSpace(last.dto.Title)
        /\ last.book[1].Author = TrimSpace(last.dto.Author)
        /\ last.book[1].Year = last.dto.Year
        /\ last.book[1].CreatedAt = last.book[1].UpdatedAt

\* a call of UpdateBook that returns no error
UpdateSucceeded == Called("UpdateBook") /\ last'.err = Nil

\* what C7 states of every field but updated_at: the row existed, the Book
\* returned is the row now stored, id and created_at are those of the row
\* before, title, author and year are those of the request
UpdateReplacesFields ==
    /\ last'.id \in DOMAIN store
    /\ Len(last'.book) = 1
    /\ last'.id \in DOMAIN store'
    /\ store'[last'.id] = last'.book[1]
    /\ last'.book[1].ID = last'.id
    /\ last'.book[1].CreatedAt = store[last'.id].CreatedAt
    /\ last'.book[1].Title = last'.dto.Title
    /\ last'.book[1].Author = last'.dto.Author
    /\ last'.book[1].Year = last'.dto.Year

\* C7 as stated: a successful UpdateBook returns and persists a Book with the
\* id and created_at of the row before, an updated_at strictly greater than
\* before, and the title, author and year of the request
C7_UpdatedAtStrictlyGreater ==
    [][ UpdateSucceeded =>
            /\ UpdateReplacesFields
            /\ last'.book[1].UpdatedAt > store[last'.id].UpdatedAt ]_vars

\* C7 amended: as C7, with updated_at equal to the store's current timestamp
\* at the update: not less than before, and strictly greater when the
\* store's clock has advanced since the row was last written
C7_UpdatedAtRefreshed ==
    [][ UpdateSucceeded =>
            /\ UpdateReplacesFields
            /\ last'.book[1].UpdatedAt = now
            /\ last'.book[1].UpdatedAt >= store[last'.id].UpdatedAt
            /\ (store[last'.id].UpdatedAt < now =>
                    last'.book[1].UpdatedAt > store[last'.id].UpdatedAt) ]_vars

\* C7 witness: an update succeeded after the clock advanced; the row stored
\* is the Book returned, with the request's fields and a later updated_at
C7_Witness ==
    /\ last.op = "UpdateBook"
    /\ last.err = Nil
    /\ last.id \in DOMAIN store
    /\ store[last.id] = last.book[1]
    /\ last.book[1].Title = last.dto.Title
    /\ last.book[1].UpdatedAt > last.book[1].CreatedAt

\* C8: UpdateBook with a valid request on an id that has no row returns no
\* Book and leaves the store unchanged, and returns BookNotFound whenever the
\* UPDATE statement reached the store
C8_UpdateUnknownId ==
    [][ (Called("UpdateBook") /\ Expected(last'.dto) = Nil /\ last'.id \notin DOMAIN store) =>
            /\ last'.book = <<>>
            /\ store' = store
            /\ nextId' = nextId
            /\ last'.db # DbNone
            /\ last'.err # Nil
            /\ (last'.db # DbQueryErr => last'.err = ErrBookNotFound) ]_vars

\* C8 witness: a valid update of an id the store never generated was answered
\* with BookNotFound, and the store is as init.sql left it
C8_Witness ==
    /\ last.op = "UpdateBook"
    /\ Expected(last.dto) = Nil
    /\ last.id \notin Generated
    /\ last.db = DbOk
    /\ last.err = ErrBookNotFound
    /\ last.book = <<>>
    /\ store = SampleData

\* C9: DeleteBook on an id that has no row changes nothing and returns
\* BookNotFound; DeleteBook on an existing id removes that row and no other;
\* a deleted id never has a row again, so GetBookByID on it returns
\* BookNotFound and so does another DeleteBook (a DeleteBook whose statement
\* did not reach the store returns DatabaseError and changes nothing)
C9_DeleteRemovesForGood ==
    [][ /\ (Called("DeleteBook") /\ last'.id \notin DOMAIN store) =>
              /\ store' = store
              /\ last'.err # Nil
              /\ (last'.db = DbOk => last'.err = ErrBookNotFound)
        /\ (Called("DeleteBook") /\ last'.id \in DOMAIN store) =>
              IF last'.db = DbOk
              THEN last'.err = Nil /\ store' = Remove(store, last'.id)
              ELSE last'.err = ErrDatabaseError /\ store' = store
        /\ \A id \in Deleted : id \notin DOMAIN store'
        /\ (Called("GetBookByID") /\ last'.id \in Deleted) =>
              /\ last'.err = ErrBookNotFound
              /\ last'.book = <<>> ]_vars

\* C9 witness: a second DeleteBook on a deleted sample row was answered with
\* BookNotFound
C9_Witness ==
    /\ last.op = "DeleteBook"
    /\ last.db = DbOk
    /\ last.err = ErrBookNotFound
    /\ last.id \in Deleted

\* the number of creations that returned no error, and whether none of the
\* generated rows was deleted
Creations == nextId - 1 - NumSample
NoDeletion == Deleted = {}

SortedByCreatedAtDesc(bs) ==
    \A i \in 1..Len(bs) : \A j \in i..Len(bs) : bs[i].CreatedAt >= bs[j].CreatedAt

C12_ReadByIdOnlyBookNotFound ==
    last.op = "GetBookByID" =>
        /\ last.err \in {Nil, ErrBookNotFound}
        /\ (last.id \notin DOMAIN store => last.err = ErrBookNotFound)
        /\ (last.db = DbQueryErr => last.err = ErrBookNotFound)
        /\ (last.err = ErrBookNotFound => last.book = <<>>)
        /\ (last.err = Nil => last.id \in DOMAIN store /\ last.book = <<store[last.id]>>)

\* a read of a stored row whose query failed returned ErrBookNotFound
C12_Witness ==
    /\ last.op = "GetBookByID"
    /\ last.db = DbQueryErr
    /\ last.id \in DOMAIN store
    /\ last.err = ErrBookNotFound
    /\ last.book = <<>>

\* C13: a call of create, read-by-id, read-all, update or delete whose
\* statement fails at the store returns ErrDatabaseError, never success and
\* never another error kind
C13_StorageFailureIsDatabaseError ==
    (last.op \in {"CreateBook", "GetBookByID", "GetAllBooks", "UpdateBook", "DeleteBook"}
       /\ last.db = DbQueryErr)
        => last.err = ErrDatabaseError

(***************************************************************************)
(* Properties of the request pipeline (specification SpecHttp).            *)
(***************************************************************************)
\* the request reached the handler of the route, which did not panic before
\* it answered
Handled(route) == resp.route = route /\ resp.handled /\ resp.panic # PanicBefore

ResponseRequestID == Header_Get(resp.header, HeaderXRequestID)

\* C11: listing an empty store succeeds with an empty sequence and no
\* error, and GET /books answers 200 with an array (the empty array), not
\* with an error body or a value that is not an array
C11_EmptyListIsEmptyArray ==
    (Handled("GET /books") /\ resp.uc.db = DbOk /\ DOMAIN store = {}) =>
        /\ resp.uc.err = Nil
        /\ resp.uc.books = <<>>
        /\ resp.status = StatusOK
        /\ resp.body.kind = "array"
        /\ resp.body.data = <<>>

\* the status the claim gives to an outcome of the use-case layer
StatusOf(op, err) ==
    IF err \in {ErrInvalidTitle, ErrInvalidAuthor, ErrInvalidYear} THEN 400
    ELSE IF err = ErrBookNotFound THEN 404
    ELSE IF err # Nil THEN 500
    ELSE IF op = "CreateBook" THEN 201
    ELSE 200

\* C14: whenever a handler called the use-case layer, the status of the
\* response is the one of the outcome: 400 for the three validation errors,
\* 404 for ErrBookNotFound, 500 for ErrDatabaseError and any other error,
\* 201 for a created Book and 200 for any other success
C14_OneStatusPerOutcome ==
    resp.uc.op # "none" => resp.status = StatusOf(resp.uc.op, resp.uc.err)

\* an update whose statement failed at the store was answered 500
C14_Witness ==
    /\ resp.route = "PUT /books/:id"
    /\ resp.uc.op = "UpdateBook"
    /\ resp.uc.err = ErrDatabaseError
    /\ resp.status = 500

\* a step that serves a request
Served == tokens' <= tokens

WellFormedId(s) == \E i \in 1..9 : s = UUIDString(i)

IdRoutes == {"GET /books/:id", "PUT /books/:id", "DELETE /books/:id"}

\* C15: on GET, PUT and DELETE /books/:id a path id that is not the text of
\* an id is answered 400 without a call to the use-case layer and with the
\* store as it was, whatever the body of a PUT is
C15_MalformedIdRejected ==
    [][(/\ Served
        /\ resp'.route \in IdRoutes
        /\ resp'.handled
        /\ resp'.panic = NoPanic
        /\ ~WellFormedId(resp'.req.idParam))
         => (/\ resp'.status = 400
             /\ resp'.body.error = "Invalid UUID format"
             /\ resp'.uc = NoResp
             /\ store' = store
             /\ nextId' = nextId)]_vars

\* a PUT with a malformed id and a valid body was answered 400
C15_Witness ==
    /\ resp.route = "PUT /books/:id"
    /\ resp.handled
    /\ resp.panic = NoPanic
    /\ resp.req.idParam = MalformedId
    /\ resp.req.body = JSONBody(ValidDTO)
    /\ resp.status = 400
    /\ resp.uc = NoResp

\* C16: every error response has the keys error, message, request_id and
\* code, with code the status of the response and request_id the
\* X-Request-ID of the response
C16_OneErrorShape ==
    resp.status >= 400 =>
        /\ resp.body.keys = {"error", "message", "request_id", "code"}
        /\ resp.body.code = resp.status
        /\ resp.body.request_id = ResponseRequestID

\* C17: POST /books with an empty title and a valid author and year is
\* answered 400 with error kind VALIDATION_ERROR, and the gateway is not
\* called
C17_EmptyTitleIsValidationError ==
    (Handled("POST /books") /\ resp.req.body = JSONBody(EmptyTitleDTO)) =>
        /\ resp.status = 400
        /\ resp.body.error = "VALIDATION_ERROR"
        /\ resp.uc.err = ErrInvalidTitle
        /\ resp.uc.db = DbNone

\* C18: every response carries an X-Request-ID: the one of the request when
\* the caller sent a non-empty one, a generated one otherwise; the ids read
\* for the log entries of the request are that value
C18_RequestIdOnEveryResponse ==
    resp.route # "none" =>
        LET supplied == Header_Get(resp.req.header, HeaderXRequestID)
        IN  /\ HeaderXRequestID \in DOMAIN resp.header
            /\ ResponseRequestID # ""
            /\ (supplied # "" => ResponseRequestID = supplied)
            /\ (supplied = "" => ResponseRequestID \in GenIds)
            /\ \A id \in resp.logs : id = ResponseRequestID

\* GET /books without an X-Request-ID was answered with a generated one,
\* which is the id the handler logged
C18_Witness ==
    /\ resp.route = "GET /books"
    /\ resp.status = StatusOK
    /\ Header_Get(resp.req.header, HeaderXRequestID) = ""
    /\ ResponseRequestID \in GenIds
    /\ resp.logs = {ResponseRequestID}

\* generic body of the response to a recovered panic
GenericServerError(b) ==
    /\ b.kind = "object"
    /\ b.error = "HTTP_ERROR"
    /\ b.message = "Internal server error occurred"
    /\ b.code = 500
    /\ b.data = <<>>

\* C20: a request that met a panic ends with a committed response, the
\* generic 500 when nothing was written before the panic and the response
\* already written otherwise, and the next request can be served
C20_PanicRecovered ==
    resp.panic # NoPanic =>
        /\ resp.status # NoStatus
        /\ (resp.panic = PanicBefore =>
              resp.status = 500 /\ GenericServerError(resp.body) /\ resp.uc = NoResp)
        /\ (resp.panic = PanicAfter => resp.logs # {} /\ resp.body # NoBody)
        /\ ENABLED ServeHealth(EmptyHeader, "generated-1", NoPanic)

\* a POST that panicked before it wrote anything was answered the generic 500
C20_Witness ==
    /\ resp.route = "POST /books"
    /\ resp.panic = PanicBefore
    /\ resp.status = 500
    /\ GenericServerError(resp.body)

(***************************************************************************)
(* Properties of the rate limiter (specification SpecRate).                *)
(***************************************************************************)
\* C19: with rate limiting enabled every request but GET /health takes a
\* token of the one bucket and reaches its handler, or, with the bucket
\* empty, is answered 429 with neither the handler nor the store invoked;
\* GET /health is admitted with the bucket as it was
C19_OneBucketButHealth ==
    [][(Served /\ rateOn) =>
          IF resp'.route = "GET /health"
          THEN tokens' = tokens /\ resp'.handled /\ resp'.status = StatusOK
          ELSE IF tokens > 0
          THEN tokens' = tokens - 1 /\ resp'.handled /\ resp'.status # 429
          ELSE /\ tokens' = tokens
               /\ ~resp'.handled
               /\ resp'.status = 429
               /\ resp'.uc = NoResp
               /\ store' = store
               /\ nextId' = nextId]_vars

\* a request met the empty bucket and was answered 429
C19_Witness ==
    /\ rateOn
    /\ tokens = 0
    /\ resp.route = "DELETE /books/:id"
    /\ resp.status = 429
    /\ ~resp.handled
    /\ UUIDString(1) = resp.req.idParam
    /\ 1 \in DOMAIN store


(***************************************************************************)
(* Properties of the rows and of the use-case layer (specification Spec).  *)
(***************************************************************************)
\* C22: in every state every stored row has updated_at >= created_at, and
\* in every step a row that stays in the store keeps its created_at
C22_TimestampsOrdered ==
    /\ [](\A id \in DOMAIN store : store[id].UpdatedAt >= store[id].CreatedAt)
    /\ [][\A id \in DOMAIN store \cap DOMAIN store' :
              store'[id].CreatedAt = store[id].CreatedAt]_vars

\* a row created at one tick was updated at a later one
C22_Witness ==
    \E id \in DOMAIN store :
        /\ id > NumSample
        /\ store[id].UpdatedAt > store[id].CreatedAt
        /\ last.op = "UpdateBook"
        /\ last.id = id

\* what the gateway returns for the call the use-case layer just made
GatewayReturned ==
    CASE last'.op = "CreateBook" ->
           {RepoCreate(store, nextId, now, ToBook(last'.dto, NewUUID), last'.db)}
      [] last'.op = "UpdateBook" ->
           {RepoUpdate(store, nextId, now, last'.id,
                       Book(NilUUID, last'.dto.Title, last'.dto.Author, last'.dto.Year,
                            ZeroTime, ZeroTime), last'.db)}
      [] last'.op = "DeleteBook" -> {RepoDelete(store, nextId, last'.id, last'.db)}
      [] last'.op = "GetBookByID" -> {RepoGetByID(store, nextId, last'.id, last'.db)}
      [] OTHER -> {}

\* C23: each use case returns the error the gateway returned, unchanged,
\* and no Book with it; without an error a use case on one book returns
\* what the gateway returned
C23_StorageErrorsPropagated ==
    [][(now' = now /\ last'.op # "none" /\ last'.db # DbNone) =>
          IF last'.op = "GetAllBooks"
          THEN IF last'.db \in QueryErrs
               THEN \A g \in RepoGetAll(store, last'.db) :
                       /\ g.err # Nil
                       /\ last'.err = g.err
                       /\ last'.books = <<>>
               ELSE last'.err = Nil
          ELSE \A g \in GatewayReturned :
                  /\ last'.err = g.err
                  /\ last'.book = g.book
                  /\ (g.err # Nil => last'.book = <<>>)
                  /\ store' = g.store]_vars

\* DeleteBook returned the ErrDatabaseError of the gateway
C23_Witness ==
    /\ last.op = "DeleteBook"
    /\ last.db = DbQueryErr
    /\ last.err = ErrDatabaseError
    /\ last.id \in DOMAIN store

\* a text that begins or ends with white space
Padded(s) == s # <<>> /\ (s[1] \in WhiteSpace \/ s[Len(s)] \in WhiteSpace)

Untrimmed(row) == Padded(row.Title) \/ Padded(row.Author)

\* C27: an update that reaches the row stores the title and author of the
\* request as given, a create stores them trimmed, and a row comes to carry
\* leading or trailing white space only by an update of that row
C27_OnlyUpdateStoresUntrimmed ==
    [][/\ (Called("UpdateBook") /\ last'.db # DbNone /\ last'.db # DbQueryErr
             /\ last'.id \in DOMAIN store) =>
             /\ store'[last'.id].Title = last'.dto.Title
             /\ store'[last'.id].Author = last'.dto.Author
       /\ (Called("CreateBook") /\ last'.db # DbNone /\ last'.db # DbQueryErr) =>
             /\ nextId \in DOMAIN store'
             /\ store'[nextId].Title = TrimSpace(last'.dto.Title)
             /\ store'[nextId].Author = TrimSpace(last'.dto.Author)
       /\ store' # store =>
             \A id \in DOMAIN store' :
                (Untrimmed(store'[id]) /\ (id \notin DOMAIN store \/ ~Untrimmed(store[id])))
                   => (Called("UpdateBook") /\ last'.id = id)]_vars

\* a created row, stored trimmed, carries the white space of an update
C27_Witness ==
    \E id \in DOMAIN store :
        /\ id > NumSample
        /\ last.op = "UpdateBook"
        /\ last.id = id
        /\ last.err = Nil
        /\ Untrimmed(store[id])
        /\ store[id].Title = last.dto.Title
        /\ TrimSpace(last.dto.Title) # last.dto.Title

\* C28: whenever the gateway's Create returns no error, the Book returned
\* is the row just inserted, with the id and timestamps the store gave it
\* and the title, author and year handed to Create
C28_CreateReturnsInsertedRow ==
    (last.op = "CreateBook" /\ last.db # DbNone /\ last.err = Nil) =>
        /\ Len(last.book) = 1
        /\ last.book[1].ID \in DOMAIN store
        /\ store[last.book[1].ID] = last.book[1]
        /\ last.book[1].ID # NilUUID
        /\ last.book[1].CreatedAt # ZeroTime
        /\ last.book[1].UpdatedAt # ZeroTime
        /\ last.book[1].Title = ToBook(last.dto, NewUUID).Title
        /\ last.book[1].Author = ToBook(last.dto, NewUUID).Author
        /\ last.book[1].Year = last.dto.Year

(***************************************************************************)
(* Properties of the centralized error handler (specification SpecHttp).   *)
(***************************************************************************)
\* C29: at most one response is written per request: an error handler that
\* runs after the handler's response was committed leaves that response as
\* it is, and one that runs before anything was written writes one error
\* response whose status is the code field of its body
C29_AtMostOneResponse ==
    /\ resp.writes <= 1
    /\ (resp.status # NoStatus <=> resp.writes = 1)
    /\ (resp.panic = PanicAfter =>
          /\ resp.writes = 1
          /\ ~GenericServerError(resp.body)
          /\ resp.uc # NoResp \/ resp.status \in {StatusOK, StatusBadRequest})
    /\ (resp.panic = PanicBefore =>
          /\ resp.writes = 1
          /\ resp.body.kind = "object"
          /\ resp.status = resp.body.code)

\* a POST wrote 201 and panicked afterwards: the error handler ran and the
\* 201 is the one response of the request
C29_Witness ==
    /\ resp.route = "POST /books"
    /\ resp.panic = PanicAfter
    /\ resp.status = StatusCreated
    /\ resp.writes = 1

(***************************************************************************)
(* The response and the cause of a storage failure (specification          *)
(* SpecHttp).                                                              *)
(***************************************************************************)
\* the storage failures a request of the route can meet
RouteFailures(route) ==
    IF route \in {"POST /books", "PUT /books/:id"} THEN QueryErrs \cup {DbNoRow}
    ELSE QueryErrs

\* what the handler of the route does with the request when the round trip
\* to the store ends as db
HandlerOf(route, req, respHeader, st, nid, clock, db) ==
    CASE route = "GET /books" ->
           {bookHandler_GetBooks(st, nid, respHeader, db, r) : r \in GetAllBooks(st, db)}
      [] route = "GET /books/:id" -> {bookHandler_GetBook(st, nid, req.idParam, db)}
      [] route = "POST /books" ->
           {bookHandler_CreateBook(st, nid, clock, req.body, NewUUID, db)}
      [] route = "PUT /books/:id" ->
           {bookHandler_UpdateBook(st, nid, clock, req.idParam, req.body, db)}
      [] route = "DELETE /books/:id" -> {bookHandler_DeleteBook(st, nid, req.idParam, db)}
      [] OTHER -> {HealthHandler(st, nid)}

\* C24: a request that met a storage failure is answered with the status
\* and the body the same request gets, from the same store, under any other
\* storage failure, and the message of the body is one of the fixed texts
C24_ResponseIndependentOfCause ==
    [][(resp'.handled /\ resp'.panic = NoPanic
          /\ resp'.uc.db \in RouteFailures(resp'.route)) =>
          /\ \A c \in RouteFailures(resp'.route) :
               \A h \in HandlerOf(resp'.route, resp'.req, resp'.header,
                                  store, nextId, now, c) :
                   h.status = resp'.status /\ h.body = resp'.body
          /\ resp'.body.message \in {ErrorText(ErrDatabaseError),
                                     ErrorText(ErrBookNotFound)}]_vars

(***************************************************************************)
(* Properties of the API-key check (specification SpecAuth).               *)
(***************************************************************************)
\* C25: with the API-key check enabled a request to GET /health reaches its
\* handler whatever its key; any other request reaches its handler when its
\* key header is one of the allowed keys, and otherwise is answered 401
\* with neither the handler nor the store invoked
C25_KeyRequired ==
    [][(Served /\ apiKeyOn) =>
          IF resp'.route = "GET /health"
          THEN resp'.handled /\ resp'.status = StatusOK
          ELSE IF Header_Get(resp'.req.header, APIKeyHeader) \in AllowedAPIKeys
          THEN resp'.handled /\ resp'.status # StatusUnauthorized
          ELSE /\ ~resp'.handled
               /\ resp'.status = StatusUnauthorized
               /\ resp'.uc = NoResp
               /\ store' = store
               /\ nextId' = nextId]_vars

\* a DELETE with a key that is not allowed was answered 401 and the row it
\* named is still stored
C25_Witness ==
    /\ apiKeyOn
    /\ resp.route = "DELETE /books/:id"
    /\ Header_Get(resp.req.header, APIKeyHeader) = "key-2"
    /\ resp.req.idParam = UUIDString(1)
    /\ resp.status = StatusUnauthorized
    /\ ~resp.handled
    /\ 1 \in DOMAIN store

(***************************************************************************)
(* Properties of concurrent requests (specification SpecConc).             *)
(***************************************************************************)
\* the place of request r among the statements run so far
Pos(r) == CHOOSE i \in 1..Len(conc.order) : conc.order[i] = r

\* title, author and year of a row
Contents(row) == <<row.Title, row.Author, row.Year>>

\* title, author and year that request r writes
Written(r) ==
    <<ConcRequest(r).dto.Title, ConcRequest(r).dto.Author, ConcRequest(r).dto.Year>>

\* C21: title, author and year of the row two concurrent updates write are
\* at any time those of one request or those of the row as it was, never a
\* mixture, and once both updates returned both succeeded and the row
\* holds what the update whose statement ran last wrote
C21_LastWriteWins ==
    /\ Contents(store[1]) \in {Contents(SampleData[1]), Written("U1"), Written("U2")}
    /\ (conc.pc["U1"] = "done" /\ conc.pc["U2"] = "done") =>
          /\ conc.err["U1"] = Nil
          /\ conc.err["U2"] = Nil
          /\ Contents(store[1]) = IF Pos("U1") > Pos("U2") THEN Written("U1")
                                  ELSE Written("U2")

\* both updates returned, the statement of U1 ran after the one of U2 and
\* the row holds what U1 wrote
C21_Witness ==
    /\ conc.pc["U1"] = "done"
    /\ conc.pc["U2"] = "done"
    /\ Pos("U2") < Pos("U1")
    /\ Contents(store[1]) = Written("U1")
    /\ Written("U1") # Written("U2")

\* the store without its timestamps
Untimed(st) ==
    [id \in DOMAIN st |-> [st[id] EXCEPT !.CreatedAt = ZeroTime, !.UpdatedAt = ZeroTime]]

\* the store after U1, D and C ran one after the other, in this order, from
\* the initial store, each at the time given by at
InOrder(at) ==
    LET s1 == ConcCall("U1", SampleData, NumSample + 1, at["U1"])
        s2 == ConcCall("D", s1.store, s1.nextId, at["D"])
        s3 == ConcCall("C", s2.store, s2.nextId, at["C"])
    IN  s3.store

\* C26: the statement of a request changes no row but the one of the
\* request's id (a create changes no row there was), and once an update, a
\* delete and a create on different ids have all returned the store is the
\* one they give when run one after the other, whatever the order in which
\* their statements ran; the timestamps are those of each statement's time
C26_DifferentIdsIndependent ==
    /\ []((conc.pc["U1"] = "done" /\ conc.pc["D"] = "done" /\ conc.pc["C"] = "done"
             /\ conc.pc["U2"] # "done") =>
            /\ store = InOrder(conc.at)
            /\ Untimed(store) = Untimed(InOrder(NoConc.at)))
    /\ [][\A r \in ConcReqs :
            (conc.pc[r] = "begun" /\ conc'.pc[r] = "done") =>
                \A id \in DOMAIN store \ {ConcRequest(r).id} :
                    id \in DOMAIN store' /\ store'[id] = store[id]]_vars

\* the create ran first, then the delete, then the update, and the store
\* is the one of the order update, delete, create
C26_Witness ==
    /\ conc.order = <<"C", "D", "U1">>
    /\ conc.pc["U2"] = "idle"
    /\ store = InOrder(conc.at)
    /\ DOMAIN store = {1, 3, NumSample + 1}

(***************************************************************************)
(* Properties of the browser client (specification SpecClient).            *)
(***************************************************************************)
\* C30: once the initial load is done and no call is in flight, the list
\* of the client holds exactly the stored rows, each once and with its
\* stored values
C30_ListMirrorsStore ==
    (client.loaded /\ client.pending = {}) =>
        /\ {client.books[k] : k \in 1..Len(client.books)} = {store[id] : id \in DOMAIN store}
        /\ Len(client.books) = Cardinality(DOMAIN store)

=========================================================================
